---------------------------- MODULE Spec2Model ----------------------------
(***************************************************************************)
(* Model of tgh, a terminal dashboard for CI workflow runs.  The program   *)
(* is a Bubble Tea application: one function Update(model, msg) returns    *)
(* the next model and a batch of commands (fetches and timers); commands   *)
(* run concurrently and their results come back as messages.               *)
(*                                                                         *)
(* The model record m is the Go struct `model`; Update is translated       *)
(* handler by handler from src/update.go (the first, current version of    *)
(* the file); the data layer (FetchNewStepLogs, processLogLines, ...) is   *)
(* translated from src/unnamed/part_000.                                   *)
(***************************************************************************)
EXTENDS Integers, Sequences, FiniteSets, TLC

(***************************************************************************)
(* Bounds of the model.                                                    *)
(***************************************************************************)
\* most fetches (of all kinds together) in flight at one time
MaxInflight == 2
\* most pending timers of one kind (runs poll, jobs poll, log poll)
MaxTimers == 2
\* most jobs of the first run (the longest job list the remote returns)
MaxJobs == 2
\* most steps of a job
MaxSteps == 3
\* cap of the counter of full-log fetches issued since a job was seen to finish
MaxCount == 3
\* longest text (a raw log, a response body) a function is called with
MaxText == 5
\* longest filter query a function is called with
MaxQuery == 2
\* most timestamps in front of a log line
MaxStamps == 2
\* largest offset a byte-range fetch is called with
MaxRangeOffset == 2

(***************************************************************************)
(* The remote CI service: runs, their jobs, the jobs' logs.                *)
(***************************************************************************)
RunIds == {1, 2}

\* the ids the jobs of a run can have; job ids are unique across runs
JobPool(r) == IF r = 1 THEN 1..MaxJobs ELSE {MaxJobs + 2}

JobIds == UNION {JobPool(r) : r \in RunIds}

\* the statuses the remote reports for a job
JobStatuses(id) ==
  IF id = 1 THEN {"in_progress", "completed"} ELSE {"completed"}

Job(id, st) == [id |-> id, status |-> st]

\* the zero value of the Go struct Job
ZeroJob == Job(0, "")

Nil == <<>>

Min(a, b) == IF a < b THEN a ELSE b

Max(a, b) == IF a > b THEN a ELSE b

RECURSIVE SortedSeq(_)
\* the elements of a set of integers in increasing order
SortedSeq(S) ==
  IF S = {} THEN <<>>
  ELSE LET x == CHOOSE y \in S : \A z \in S : y <= z
       IN  <<x>> \o SortedSeq(S \ {x})

RECURSIVE ListsOver(_)
\* every job list with exactly the given ids (a sequence of ids), any status
ListsOver(ids) ==
  IF ids = <<>> THEN {<<>>}
  ELSE {<<Job(Head(ids), st)>> \o rest :
          st \in JobStatuses(Head(ids)), rest \in ListsOver(Tail(ids))}

\* the job lists ListJobs(r) can return: distinct ids of the run, in id order
JobLists(r) == UNION {ListsOver(SortedSeq(S)) : S \in SUBSET JobPool(r)}

IdsOf(jobs) == {jobs[i].id : i \in DOMAIN jobs}

(***************************************************************************)
(* Text: a Go string is a sequence of one-character strings.               *)
(***************************************************************************)
NL == "\n"

RECURSIVE SplitFrom(_, _)
\* strings.Split(s, "\n") with the line being collected
SplitFrom(s, cur) ==
  IF s = <<>> THEN <<cur>>
  ELSE IF Head(s) = NL THEN <<cur>> \o SplitFrom(Tail(s), <<>>)
  ELSE SplitFrom(Tail(s), Append(cur, Head(s)))

Split(s) == SplitFrom(s, <<>>)

RECURSIVE Join(_)
\* strings.Join(lines, "\n")
Join(lines) ==
  IF lines = <<>> THEN <<>>
  ELSE IF Len(lines) = 1 THEN lines[1]
  ELSE lines[1] \o <<NL>> \o Join(Tail(lines))

ToLowerChar(c) ==
  CASE c = "A" -> "a"
    [] c = "B" -> "b"
    [] OTHER   -> c

ToLower(s) == [i \in DOMAIN s |-> ToLowerChar(s[i])]

HasPrefix(s, p) == Len(s) >= Len(p) /\ SubSeq(s, 1, Len(p)) = p

\* strings.Contains(s, sub)
Contains(s, sub) ==
  \E i \in 0..(Len(s) - Len(sub)) : SubSeq(s, i + 1, i + Len(sub)) = sub

IsPrefixOf(p, s) == HasPrefix(s, p)


(***************************************************************************)
(* Pure helpers of the update loop.                                        *)
(***************************************************************************)
\* a faulty isRunning, which takes a queued job as finished
isRunningInProgressOnly(status) == status = "in_progress"

\* isRunning reports whether a job status means the job hasn't finished
isRunning(status) == status = "in_progress" \/ status = "queued"

\* A command of the batch Update returns: a fetch or a timer.
Cmd(c, arg) == [c |-> c, arg |-> arg]

\* what Update returns: the next model and the commands to run
Ret(mm, cs) == [m |-> mm, cmds |-> cs]

\* list.Model.SelectedItem(): the item under the cursor, if there is one
HasSelected(items, idx) == idx >= 0 /\ idx < Len(items)

SelectedItem(items, idx) == items[idx + 1]

\* list.Model.Update(key): the cursor keys of a list, and the clamp of the
\* cursor that follows every key the list sees (the lists of the model have
\* one page, so the paging keys move nothing)
ListKey(items, idx, key) ==
  LET n == Len(items)
      moved == CASE key \in {"up", "k"}   -> Max(0, idx - 1)
                 [] key \in {"down", "j"} ->
                      IF idx + 1 < n THEN idx + 1
                      ELSE IF idx + 1 > n THEN 0
                      ELSE n - 1
                 [] key \in {"g", "home"} -> 0
                 [] key \in {"G", "end"}  -> n - 1
                 [] OTHER -> idx
  IN  IF moved > n - 1 THEN Max(0, n - 1) ELSE moved

RECURSIVE HasNewFrom(_, _, _)
\* the loop of the waiting gate: is there a job whose id is not in startIDs
HasNewFrom(startIDs, jobs, i) ==
  IF i > Len(jobs) THEN FALSE
  ELSE IF jobs[i].id \notin startIDs THEN TRUE
  ELSE HasNewFrom(startIDs, jobs, i + 1)

HasNew(startIDs, jobs) == HasNewFrom(startIDs, jobs, 1)

\* a faulty inner loop, which looks at the first old job only
FoundInFirstOnly(oldJobs, id, k) ==
  Len(oldJobs) >= 1 /\ oldJobs[1].id = id

RECURSIVE FoundIn(_, _, _)
\* the inner loop of the change detector: does oldJobs hold a job with this id
FoundIn(oldJobs, id, k) ==
  IF k > Len(oldJobs) THEN FALSE
  ELSE IF oldJobs[k].id = id THEN TRUE
  ELSE FoundIn(oldJobs, id, k + 1)

RECURSIVE NewJobsFrom(_, _, _)
\* the outer loop of the change detector, from job i of the new list on
NewJobsFrom(oldJobs, jobs, i) ==
  IF i > Len(jobs) THEN <<>>
  ELSE IF FoundIn(oldJobs, jobs[i].id, 1)
       THEN NewJobsFrom(oldJobs, jobs, i + 1)
       ELSE <<jobs[i]>> \o NewJobsFrom(oldJobs, jobs, i + 1)

\* the jobs of the new list that the old list does not hold
NewJobs(oldJobs, jobs) == NewJobsFrom(oldJobs, jobs, 1)

RECURSIVE IndexOfId(_, _, _)
\* the first index (from 0) of the item with this id, -1 when there is none
IndexOfId(items, id, i) ==
  IF i > Len(items) THEN -1
  ELSE IF items[i].id = id THEN i - 1
  ELSE IndexOfId(items, id, i + 1)

(***************************************************************************)
(* Log text: timestamp stripping, filtering, rendering.                    *)
(***************************************************************************)
\* strings.IndexByte(line, ' '), from 0, -1 when there is none
IndexOfSpace(line) ==
  IF \E i \in DOMAIN line : line[i] = " "
  THEN (CHOOSE i \in DOMAIN line :
          line[i] = " " /\ \A k \in 1..(i - 1) : line[k] # " ") - 1
  ELSE -1

\* one line of processLogLines: a timestamp prefix is cut off
StripLine(line) ==
  IF Len(line) > 30 /\ line[5] = "-" /\ line[8] = "-"
  THEN LET idx == IndexOfSpace(line)
       IN  IF idx > 0 /\ idx < 35
           THEN SubSeq(line, idx + 2, Len(line))
           ELSE line
  ELSE line

\* processLogLines strips the timestamp prefix of every line
processLogLines(content) ==
  LET lines == Split(content)
  IN  Join([i \in DOMAIN lines |-> StripLine(lines[i])])

GroupMarker == <<"#", "#", "[", "g", "r", "o", "u", "p", "]">>

EndGroupMarker == <<"#", "#", "[", "e", "n", "d", "g", "r", "o", "u", "p", "]">>

ErrorMarker == <<"#", "#", "[", "e", "r", "r", "o", "r", "]">>

WarningMarker == <<"#", "#", "[", "w", "a", "r", "n", "i", "n", "g", "]">>

CommandMarker == <<"#", "#", "[", "c", "o", "m", "m", "a", "n", "d", "]">>

\* the width of the rule an endgroup line renders as
RuleWidth == 60

TrimPrefix(line, p) == SubSeq(line, Len(p) + 1, Len(line))

\* renderLogLine: a marker line becomes a glyph and the rest of the line
\* (the glyphs are written in ASCII: > for the triangle, x for the cross,
\* ! for the warning sign, - for the rule)
renderLogLine(line) ==
  CASE HasPrefix(line, GroupMarker) ->
         <<">", " ">> \o TrimPrefix(line, GroupMarker)
    [] HasPrefix(line, EndGroupMarker) -> [i \in 1..RuleWidth |-> "-"]
    [] HasPrefix(line, ErrorMarker) ->
         <<"x", " ">> \o TrimPrefix(line, ErrorMarker)
    [] HasPrefix(line, WarningMarker) ->
         <<"!", " ">> \o TrimPrefix(line, WarningMarker)
    [] HasPrefix(line, CommandMarker) ->
         <<"$", " ">> \o TrimPrefix(line, CommandMarker)
    [] OTHER -> line

renderLogs(content) ==
  LET lines == Split(content)
  IN  Join([i \in DOMAIN lines |-> renderLogLine(lines[i])])

\* a faulty filter, which compares the line and the query as they are
FilterLinesExact(content, filter) ==
  Join(SelectSeq(Split(content), LAMBDA line : Contains(line, filter)))

\* the loop of applyLogFilter: the lines of content that hold the filter,
\* both lowercased, joined again
FilterLines(content, filter) ==
  LET lower == ToLower(filter)
  IN  Join(SelectSeq(Split(content),
                     LAMBDA line : Contains(ToLower(line), lower)))

\* the text applyLogFilter renders: the raw log, filtered when a filter is set
FilterOutput(raw, filter) ==
  IF filter # <<>> THEN FilterLines(raw, filter) ELSE raw

\* lipgloss.Height: the number of lines of a text
Height(s) == Len(Split(s))

\* viewport.GotoBottom: the offset at which the last line is the bottom row
GotoBottom(mm) == [mm EXCEPT !.yOffset = Max(0, mm.vpLines - mm.vpHeight)]

\* viewport.SetContent: the lines are replaced, and an offset past the last
\* line goes to the bottom
SetContent(mm, s) ==
  LET m1 == [mm EXCEPT !.vpLines = Len(Split(s))]
  IN  IF m1.yOffset > m1.vpLines - 1 THEN GotoBottom(m1) ELSE m1

\* updateSizes fits the log viewport to the terminal
updateSizes(mm) ==
  LET extra == IF mm.logFilterMode THEN 1 ELSE 0
      m1    == [mm EXCEPT !.vpHeight = Max(1, mm.height - 4 - extra)]
  IN  IF m1.logContent # <<>>
      THEN LET m2 == SetContent(m1, m1.logContent)
           IN  IF m2.autoScroll THEN GotoBottom(m2)
               ELSE [m2 EXCEPT !.yOffset = mm.yOffset]
      ELSE m1

\* a faulty applyLogFilter, which renders the whole log whatever the filter
applyLogFilterUnfiltered(mm) ==
  LET rendered == renderLogs(mm.logRaw)
      m1       == [SetContent(mm, rendered) EXCEPT !.logContent = rendered]
  IN  IF m1.autoScroll THEN GotoBottom(m1) ELSE m1

\* a faulty applyLogFilter, which turns auto-scroll on to follow the log
applyLogFilterFollowing(mm) ==
  LET rendered == renderLogs(FilterOutput(mm.logRaw, mm.logFilter))
  IN  GotoBottom([SetContent(mm, rendered) EXCEPT !.logContent = rendered,
                                                  !.autoScroll = TRUE])

\* applyLogFilter re-renders the log viewport from logRaw and logFilter
applyLogFilter(mm) ==
  LET rendered == renderLogs(FilterOutput(mm.logRaw, mm.logFilter))
      m1       == [SetContent(mm, rendered) EXCEPT !.logContent = rendered]
  IN  IF m1.autoScroll THEN GotoBottom(m1) ELSE m1

(***************************************************************************)
(* The model: the Go struct `model` as a record.  A run is its id, a pull  *)
(* request is its number (0: no pull request), jobsPollStartIDs is Nil or  *)
(* <<the set of ids>>.  Of the log viewport the record holds the height,   *)
(* the number of lines of its content and the scroll offset.  A workflow   *)
(* is its id (0: none selected); of the dispatch form the record holds the *)
(* number of its fields (0: formFields is nil), the focused field and the  *)
(* focused button (0: a field, 1: Cancel, 2: Build).                       *)
(***************************************************************************)
\* the height the log viewport is constructed with
DefaultViewportHeight == 20

InitModel ==
  [state            |-> "Menu",
   menuIndex        |-> 0,
   runsItems        |-> <<>>,
   runsIdx          |-> 0,
   runsPolling      |-> FALSE,
   runsFiltering    |-> FALSE,
   selectedRun      |-> 0,
   jobsItems        |-> <<>>,
   jobsIdx          |-> 0,
   jobsPolling      |-> FALSE,
   jobsPollStartIDs |-> Nil,
   selectedJob      |-> ZeroJob,
   logContent       |-> <<>>,
   logRaw           |-> <<>>,
   logLoaded        |-> FALSE,
   autoScroll       |-> TRUE,
   height           |-> 0,
   vpHeight         |-> DefaultViewportHeight,
   vpLines          |-> 0,
   yOffset          |-> 0,
   pipelineInfo     |-> FALSE,
   stepLogsFetched  |-> 0,
   logFilter        |-> <<>>,
   logFilterMode    |-> FALSE,
   prsItems         |-> <<>>,
   prsIdx           |-> 0,
   selectedPR       |-> 0,
   loading          |-> FALSE,
   statusMsg        |-> "",
   workflowsItems   |-> <<>>,
   workflowsIdx     |-> 0,
   selectedWorkflow |-> 0,
   formFields       |-> 0,
   formActiveField  |-> 0,
   formButton       |-> 0,
   defaultBranch    |-> "",
   lastJobsForRun   |-> [r \in RunIds \cup {0} |-> <<>>]]

\* numMenuItems is the number of items in the main menu
numMenuItems == 2

WaitingForLogs == <<"W", "L">>

WaitingForStepLogs == <<"W", "S">>

\* the tail of Update for a key no case returned on: the key goes to the
\* list of the current state
Delegate(mm, key) ==
  CASE mm.state = "Runs" ->
         \* the runs list has filtering enabled: / opens its filter input
         IF key = "/" /\ Len(mm.runsItems) > 0
         THEN [mm EXCEPT !.runsFiltering = TRUE, !.runsIdx = 0]
         ELSE [mm EXCEPT !.runsIdx = ListKey(mm.runsItems, mm.runsIdx, key)]
    [] mm.state = "Jobs" ->
         [mm EXCEPT !.jobsIdx = ListKey(mm.jobsItems, mm.jobsIdx, key)]
    [] mm.state = "PRs" ->
         [mm EXCEPT !.prsIdx = ListKey(mm.prsItems, mm.prsIdx, key)]
    [] mm.state = "Workflows" ->
         [mm EXCEPT !.workflowsIdx =
                      ListKey(mm.workflowsItems, mm.workflowsIdx, key)]
    [] OTHER -> mm

\* the run-list fetch of the current context: the pull request's runs or all
FetchRunsOf(mm) ==
  IF mm.selectedPR # 0 THEN Cmd("fetchRunsForPR", mm.selectedPR)
  ELSE Cmd("fetchRuns", 0)

(***************************************************************************)
(* Key presses.                                                            *)
(***************************************************************************)
\* the keys of the main menu, handled before everything else
OnMenuKey(mm, key) ==
  CASE key \in {"up", "k"} ->
         Ret([mm EXCEPT !.menuIndex = IF @ > 0 THEN @ - 1 ELSE @], <<>>)
    [] key \in {"down", "j"} ->
         Ret([mm EXCEPT !.menuIndex = IF @ < numMenuItems - 1 THEN @ + 1 ELSE @],
             <<>>)
    [] OTHER ->  \* enter
         IF mm.menuIndex = 0
         THEN Ret([mm EXCEPT !.state = "Runs", !.loading = TRUE,
                             !.statusMsg = "", !.selectedPR = 0,
                             !.runsPolling = TRUE],
                  <<Cmd("fetchRuns", 0), Cmd("runsPoll", 0)>>)
         ELSE Ret([mm EXCEPT !.state = "PRs", !.loading = TRUE,
                             !.statusMsg = ""],
                  <<Cmd("fetchPRs", 0)>>)

\* the keys of Runs while the filter input of the runs list is open: they
\* all go to the list.  enter on the empty input and esc close it; a key
\* that types into the input changes its text, which the record does not
\* hold.
OnRunsFilterKey(mm, key) ==
  IF key \in {"enter", "esc"} THEN [mm EXCEPT !.runsFiltering = FALSE]
  ELSE mm

\* a faulty enter in Runs, which does not arm the jobs-poll timer
OnEnterRunsWithoutTimer(mm) ==
  IF HasSelected(mm.runsItems, mm.runsIdx)
  THEN LET run == SelectedItem(mm.runsItems, mm.runsIdx)
       IN  Ret([mm EXCEPT !.selectedRun = run, !.state = "Jobs",
                          !.loading = TRUE, !.statusMsg = "",
                          !.jobsPolling = TRUE],
               <<Cmd("fetchJobs", run)>>)
  ELSE Ret(Delegate(mm, "enter"), <<>>)

\* enter in Runs: the selected run's jobs are shown and polled
OnEnterRuns(mm) ==
  IF HasSelected(mm.runsItems, mm.runsIdx)
  THEN LET run == SelectedItem(mm.runsItems, mm.runsIdx)
       IN  Ret([mm EXCEPT !.selectedRun = run, !.state = "Jobs",
                          !.loading = TRUE, !.statusMsg = "",
                          !.jobsPolling = TRUE],
               <<Cmd("fetchJobs", run), Cmd("jobsPoll", 0)>>)
  ELSE Ret(Delegate(mm, "enter"), <<>>)

\* a faulty enter in Jobs, which keeps the log text of the last visit
OnEnterJobsKeepingLog(mm) ==
  IF HasSelected(mm.jobsItems, mm.jobsIdx)
  THEN LET job == SelectedItem(mm.jobsItems, mm.jobsIdx)
           m1  == updateSizes(
                    [mm EXCEPT !.selectedJob = job, !.state = "Logs",
                               !.jobsPolling = FALSE, !.autoScroll = TRUE,
                               !.statusMsg = "", !.logFilterMode = FALSE])
       IN  IF isRunning(job.status)
           THEN Ret(m1, <<Cmd("fetchJobs", mm.selectedRun), Cmd("logPoll", 0)>>)
           ELSE Ret(m1, <<Cmd("fetchLogs", job.id)>>)
  ELSE Ret(Delegate(mm, "enter"), <<>>)

\* enter in Jobs: the log view of the selected job is entered
OnEnterJobs(mm) ==
  IF HasSelected(mm.jobsItems, mm.jobsIdx)
  THEN LET job == SelectedItem(mm.jobsItems, mm.jobsIdx)
           m1  == updateSizes(
                    [mm EXCEPT !.selectedJob = job, !.state = "Logs",
                               !.jobsPolling = FALSE, !.logContent = <<>>,
                               !.logRaw = <<>>, !.logLoaded = FALSE,
                               !.autoScroll = TRUE, !.statusMsg = "",
                               !.logFilter = <<>>, !.logFilterMode = FALSE,
                               !.pipelineInfo = FALSE, !.stepLogsFetched = 0])
       IN  IF isRunning(job.status)
           THEN Ret(m1, <<Cmd("fetchJobs", mm.selectedRun), Cmd("logPoll", 0)>>)
           ELSE Ret(m1, <<Cmd("fetchLogs", job.id)>>)
  ELSE Ret(Delegate(mm, "enter"), <<>>)

\* enter in PullRequests: the runs of the selected pull request are shown
OnEnterPRs(mm) ==
  IF HasSelected(mm.prsItems, mm.prsIdx)
  THEN LET pr == SelectedItem(mm.prsItems, mm.prsIdx)
       IN  Ret([mm EXCEPT !.selectedPR = pr, !.state = "Runs",
                          !.loading = TRUE, !.statusMsg = "",
                          !.runsPolling = TRUE],
               <<Cmd("fetchRunsForPR", pr), Cmd("runsPoll", 0)>>)
  ELSE Ret(Delegate(mm, "enter"), <<>>)

OnEnter(mm) ==
  CASE mm.state = "Runs" -> OnEnterRuns(mm)
    [] mm.state = "Jobs" -> OnEnterJobs(mm)
    [] mm.state = "PRs"  -> OnEnterPRs(mm)
    [] mm.state = "Workflows" /\ HasSelected(mm.workflowsItems, mm.workflowsIdx) ->
         \* the inputs of the selected workflow are fetched
         LET wf == SelectedItem(mm.workflowsItems, mm.workflowsIdx)
         IN  Ret([mm EXCEPT !.selectedWorkflow = wf, !.loading = TRUE,
                            !.statusMsg = ""],
                 <<Cmd("fetchWorkflowInputs", wf)>>)
    [] OTHER -> Ret(Delegate(mm, "enter"), <<>>)

\* a faulty esc, which leaves the jobs polling flag alone on the way from
\* Logs back to Jobs
OnBackWithoutPolling(mm) ==
  CASE mm.state = "Jobs" ->
         Ret([mm EXCEPT !.state = "Runs", !.jobsPolling = FALSE,
                        !.jobsPollStartIDs = Nil, !.statusMsg = ""], <<>>)
    [] mm.state = "Logs" ->
         Ret([mm EXCEPT !.state = "Jobs", !.statusMsg = ""],
             <<Cmd("jobsPoll", 0)>>)
    [] mm.state = "Runs" ->
         Ret([mm EXCEPT !.runsPolling = FALSE, !.statusMsg = "",
                        !.selectedPR = 0,
                        !.state = IF mm.selectedPR # 0 THEN "PRs" ELSE "Menu"],
             <<>>)
    [] mm.state = "PRs" ->
         Ret([mm EXCEPT !.state = "Menu", !.statusMsg = ""], <<>>)
    [] mm.state = "Workflows" ->
         Ret([mm EXCEPT !.state = "Runs", !.statusMsg = ""], <<>>)
    [] OTHER -> Ret(Delegate(mm, "esc"), <<>>)

\* esc / b: one view back
OnBack(mm) ==
  CASE mm.state = "Jobs" ->
         Ret([mm EXCEPT !.state = "Runs", !.jobsPolling = FALSE,
                        !.jobsPollStartIDs = Nil, !.statusMsg = ""], <<>>)
    [] mm.state = "Logs" ->
         Ret([mm EXCEPT !.state = "Jobs", !.statusMsg = "",
                        !.jobsPolling = TRUE],
             <<Cmd("jobsPoll", 0)>>)
    [] mm.state = "Runs" ->
         Ret([mm EXCEPT !.runsPolling = FALSE, !.statusMsg = "",
                        !.selectedPR = 0,
                        !.state = IF mm.selectedPR # 0 THEN "PRs" ELSE "Menu"],
             <<>>)
    [] mm.state = "PRs" ->
         Ret([mm EXCEPT !.state = "Menu", !.statusMsg = ""], <<>>)
    [] mm.state = "Workflows" ->
         Ret([mm EXCEPT !.state = "Runs", !.statusMsg = ""], <<>>)
    [] OTHER -> Ret(Delegate(mm, "esc"), <<>>)

\* r in Logs: the manual refresh of the log view
OnRefreshLogs(mm) ==
  LET m1 == [mm EXCEPT !.logLoaded = FALSE, !.logRaw = <<>>,
                       !.logContent = <<>>, !.logFilter = <<>>,
                       !.logFilterMode = FALSE, !.pipelineInfo = FALSE,
                       !.stepLogsFetched = 0]
  IN  IF isRunning(mm.selectedJob.status)
      THEN Ret(m1, <<Cmd("fetchJobs", mm.selectedRun), Cmd("logPoll", 0)>>)
      ELSE Ret(m1, <<Cmd("fetchLogs", mm.selectedJob.id)>>)

\* r / R in Runs and Jobs: a rerun of the failed jobs / of all jobs is
\* triggered; r in Logs and PullRequests refreshes
OnRerunKey(mm, key) ==
  LET kind    == IF key = "r" THEN "rerunFailed" ELSE "rerunAll"
      trigger == [mm EXCEPT !.statusMsg = IF key = "r"
                                          THEN "Triggering rerun of failed jobs"
                                          ELSE "Triggering rerun of all jobs",
                            !.loading = TRUE]
  IN  CASE mm.state = "Runs" /\ HasSelected(mm.runsItems, mm.runsIdx) ->
             Ret(trigger, <<Cmd(kind, SelectedItem(mm.runsItems, mm.runsIdx))>>)
        [] mm.state = "Jobs" ->
             Ret(trigger, <<Cmd(kind, mm.selectedRun)>>)
        [] mm.state = "Logs" /\ key = "r" -> OnRefreshLogs(mm)
        [] mm.state = "PRs" /\ key = "r" ->
             Ret([mm EXCEPT !.loading = TRUE, !.statusMsg = ""],
                 <<Cmd("fetchPRs", 0)>>)
        [] OTHER -> Ret(Delegate(mm, key), <<>>)

\* tab / ctrl+r: the manual refresh of a list view
OnRefreshKey(mm, key) ==
  CASE mm.state = "Runs" ->
         Ret([mm EXCEPT !.loading = TRUE, !.statusMsg = ""], <<FetchRunsOf(mm)>>)
    [] mm.state = "PRs" ->
         Ret([mm EXCEPT !.loading = TRUE, !.statusMsg = ""],
             <<Cmd("fetchPRs", 0)>>)
    [] OTHER -> Ret(Delegate(mm, key), <<>>)

\* the offset at which the last line of the rendered log is the bottom row
MaxOffset(mm) == Max(0, Height(mm.logContent) - mm.vpHeight)

\* the keys of the log filter bar, handled while the bar is open
OnFilterKey(mm, key) ==
  CASE key = "esc" ->
         updateSizes(applyLogFilter([mm EXCEPT !.logFilter = <<>>,
                                               !.logFilterMode = FALSE]))
    [] key = "enter" -> updateSizes([mm EXCEPT !.logFilterMode = FALSE])
    [] key = "backspace" ->
         IF Len(mm.logFilter) > 0
         THEN applyLogFilter([mm EXCEPT !.logFilter =
                                          SubSeq(@, 1, Len(@) - 1)])
         ELSE mm
    [] key = "ctrl+u" -> applyLogFilter([mm EXCEPT !.logFilter = <<>>])
    [] key = "up" ->
         IF mm.yOffset > 0
         THEN [mm EXCEPT !.yOffset = @ - 1, !.autoScroll = FALSE]
         ELSE mm
    [] key = "down" ->
         LET m1 == IF mm.yOffset < MaxOffset(mm)
                   THEN [mm EXCEPT !.yOffset = @ + 1] ELSE mm
         IN  IF m1.yOffset >= MaxOffset(mm)
             THEN [m1 EXCEPT !.autoScroll = TRUE] ELSE m1
    [] OTHER ->  \* a key that types a character is appended
         IF key \in {"a", "B", "g", "G", "/"}
         THEN applyLogFilter([mm EXCEPT !.logFilter = Append(@, key)])
         ELSE mm

\* a faulty / handler, which opens the filter bar in every view
OnSlashInAnyView(mm) ==
  IF ~isRunning(mm.selectedJob.status)
  THEN updateSizes([mm EXCEPT !.logFilterMode = TRUE])
  ELSE Delegate(mm, "/")

\* / in Logs opens the filter bar when the job is not running
OnSlash(mm) ==
  IF mm.state = "Logs" /\ ~isRunning(mm.selectedJob.status)
  THEN updateSizes([mm EXCEPT !.logFilterMode = TRUE])
  ELSE Delegate(mm, "/")

ScrollKeys == {"a", "g", "G", "up", "pgup", "down", "pgdn"}

\* the scroll keys of the log view
OnScrollKey(mm, key) ==
  CASE key = "a" ->
         LET m1 == [mm EXCEPT !.autoScroll = ~@]
         IN  IF m1.autoScroll THEN GotoBottom(m1) ELSE m1
    [] key = "g" -> [mm EXCEPT !.yOffset = 0, !.autoScroll = FALSE]
    [] key = "G" -> GotoBottom(mm)
    [] key = "up" ->
         IF mm.yOffset > 0
         THEN [mm EXCEPT !.yOffset = @ - 1, !.autoScroll = FALSE]
         ELSE mm
    [] key = "pgup" ->
         [mm EXCEPT !.yOffset = Max(0, @ - (mm.vpHeight \div 2)),
                    !.autoScroll = FALSE]
    [] key = "down" ->
         LET m1 == IF mm.yOffset < MaxOffset(mm)
                   THEN [mm EXCEPT !.yOffset = @ + 1] ELSE mm
         IN  IF m1.yOffset >= MaxOffset(mm)
             THEN GotoBottom([m1 EXCEPT !.autoScroll = TRUE]) ELSE m1
    [] key = "pgdn" ->
         LET m1 == [mm EXCEPT !.yOffset =
                      Min(MaxOffset(mm), @ + (mm.vpHeight \div 2))]
         IN  IF m1.yOffset >= MaxOffset(mm)
             THEN GotoBottom([m1 EXCEPT !.autoScroll = TRUE]) ELSE m1

\* tea.Quit, the command that ends the program
Quit == Cmd("quit", 0)

\* the keys of the dispatch form, which all return here.  The keys that no
\* case is written for (the arrows inside a field, the characters typed
\* into it) change the text and the selection of the fields, which the
\* record does not hold.
OnDispatchFormKey(mm, key) ==
  CASE key = "ctrl+c" -> Ret(mm, <<Quit>>)
    [] key = "esc" ->
         Ret([mm EXCEPT !.state = "Workflows", !.formFields = 0,
                        !.formButton = 0], <<>>)
    [] key = "tab" ->
         IF mm.formButton # 0
         THEN Ret([mm EXCEPT !.formButton = 0,
                             !.formActiveField =
                               IF mm.formFields > 0 THEN 0 ELSE @], <<>>)
         ELSE IF mm.formFields > 0
         THEN IF mm.formActiveField = mm.formFields - 1
              THEN Ret([mm EXCEPT !.formButton = 2], <<>>)
              ELSE Ret([mm EXCEPT !.formActiveField = @ + 1], <<>>)
         ELSE Ret(mm, <<>>)
    [] key = "shift+tab" ->
         IF mm.formButton # 0
         THEN Ret([mm EXCEPT !.formButton = 0,
                             !.formActiveField =
                               IF mm.formFields > 0 THEN mm.formFields - 1
                               ELSE @], <<>>)
         ELSE IF mm.formFields > 0
         THEN IF mm.formActiveField = 0
              THEN Ret([mm EXCEPT !.formButton = 1], <<>>)
              ELSE Ret([mm EXCEPT !.formActiveField = @ - 1], <<>>)
         ELSE Ret(mm, <<>>)
    [] key = "enter" /\ mm.formButton = 1 ->
         Ret([mm EXCEPT !.state = "Workflows", !.formFields = 0,
                        !.formButton = 0], <<>>)
    [] key = "enter" /\ mm.formButton = 2 ->
         Ret([mm EXCEPT !.loading = TRUE,
                        !.statusMsg = "Dispatching workflow"],
             <<Cmd("triggerDispatch", mm.selectedWorkflow)>>)
    [] key \in {"left", "right"} /\ mm.formButton # 0 ->
         Ret([mm EXCEPT !.formButton = IF @ = 1 THEN 2 ELSE 1], <<>>)
    [] OTHER -> Ret(mm, <<>>)

\* d in Runs: the workflow list is shown; the default branch is fetched
\* until it is known
OnDispatchKey(mm) ==
  IF mm.state = "Runs"
  THEN Ret([mm EXCEPT !.state = "Workflows", !.statusMsg = ""],
           <<Cmd("fetchWorkflows", 0)>>
             \o (IF mm.defaultBranch = ""
                 THEN <<Cmd("fetchDefaultBranch", 0)>> ELSE <<>>))
  ELSE Ret(Delegate(mm, "d"), <<>>)

\* a key press (c in Logs, which copies the log to the clipboard, is not
\* pressed in this model; q quits, as the runs list has no applied filter
\* in this model).  In the filter input of the runs list ctrl+c is
\* the ForceQuit binding of the list; in the log filter bar it is one of
\* the keys that type nothing.
OnKey(mm, key) ==
  IF mm.state = "Menu" /\ key \in {"up", "k", "down", "j", "enter"}
  THEN OnMenuKey(mm, key)
  ELSE IF mm.state = "Runs" /\ mm.runsFiltering
  THEN IF key = "ctrl+c" THEN Ret(mm, <<Quit>>)
       ELSE Ret(OnRunsFilterKey(mm, key), <<>>)
  ELSE IF mm.state = "Logs" /\ mm.logFilterMode
  THEN Ret(OnFilterKey(mm, key), <<>>)
  ELSE IF mm.state = "DispatchForm"
  THEN OnDispatchFormKey(mm, key)
  ELSE CASE key \in {"ctrl+c", "q"}   -> Ret(mm, <<Quit>>)
         [] key = "enter"             -> OnEnter(mm)
         [] key = "d"                 -> OnDispatchKey(mm)
         [] key \in {"esc", "b"}      -> OnBack(mm)
         [] key \in {"r", "R"}        -> OnRerunKey(mm, key)
         [] key \in {"tab", "ctrl+r"} -> OnRefreshKey(mm, key)
         [] key = "/"                 -> Ret(OnSlash(mm), <<>>)
         [] mm.state = "Logs" /\ key \in ScrollKeys ->
              Ret(OnScrollKey(mm, key), <<>>)
         [] OTHER                     -> Ret(Delegate(mm, key), <<>>)

\* tea.WindowSizeMsg: the terminal was resized
OnWindowSize(mm, h) ==
  Ret(updateSizes([mm EXCEPT !.height = h]), <<>>)

(***************************************************************************)
(* Data messages: the results of fetches and the ticks of timers.          *)
(***************************************************************************)
\* runsLoadedMsg: the run list is replaced
OnRunsLoaded(mm, runs) ==
  Ret([mm EXCEPT !.loading = FALSE, !.runsItems = runs], <<>>)

\* prsLoadedMsg: the pull request list is replaced
OnPRsLoaded(mm, prs) ==
  Ret([mm EXCEPT !.loading = FALSE, !.prsItems = prs], <<>>)

\* the waiting gate of jobsLoadedMsg: after a rerun, a result with no id
\* outside the poll start set is dropped
Gated(mm, jobs) ==
  mm.jobsPollStartIDs # Nil /\ ~HasNew(mm.jobsPollStartIDs[1], jobs)

\* the auto-jump of jobsLoadedMsg: in Jobs, the first new job is selected
AutoJump(mm, jobs, newJobs) ==
  IF mm.state = "Jobs" /\ Len(newJobs) > 0
  THEN LET i == IndexOfId(jobs, newJobs[1].id, 1)
       IN  IF i >= 0
           THEN [mm EXCEPT !.jobsIdx = i,
                           !.statusMsg = "Jumped to re-triggered job"]
           ELSE mm
  ELSE mm

RECURSIVE SyncFromClearing(_, _, _)
\* a faulty status sync, which clears the displayed job when the result
\* does not hold it
SyncFromClearing(mm, jobs, i) ==
  IF i > Len(jobs) THEN Ret([mm EXCEPT !.selectedJob = ZeroJob], <<>>)
  ELSE IF jobs[i].id = mm.selectedJob.id
       THEN LET wasRunning == isRunning(mm.selectedJob.status)
                isNowDone  == wasRunning /\ ~isRunning(jobs[i].status)
                m1         == [mm EXCEPT !.selectedJob = jobs[i]]
            IN  IF isNowDone
                THEN Ret([m1 EXCEPT !.pipelineInfo = FALSE],
                         <<Cmd("fetchLogs", jobs[i].id)>>)
                ELSE Ret(m1, <<>>)
       ELSE SyncFromClearing(mm, jobs, i + 1)

RECURSIVE SyncFrom(_, _, _)
\* the status sync of jobsLoadedMsg in Logs, from job i of the result on:
\* the displayed job is replaced by its fresh record, and a job that was
\* running and is not any more gets its full log fetched
SyncFrom(mm, jobs, i) ==
  IF i > Len(jobs) THEN Ret(mm, <<>>)
  ELSE IF jobs[i].id = mm.selectedJob.id
       THEN LET wasRunning == isRunning(mm.selectedJob.status)
                isNowDone  == wasRunning /\ ~isRunning(jobs[i].status)
                m1         == [mm EXCEPT !.selectedJob = jobs[i]]
            IN  IF isNowDone
                THEN Ret([m1 EXCEPT !.pipelineInfo = FALSE],
                         <<Cmd("fetchLogs", jobs[i].id)>>)
                ELSE Ret(m1, <<>>)
       ELSE SyncFrom(mm, jobs, i + 1)

SyncSelectedJob(mm, jobs) ==
  IF mm.state = "Logs" THEN SyncFrom(mm, jobs, 1) ELSE Ret(mm, <<>>)

\* the per-run cache of jobsLoadedMsg: the list is stored under the run
\* that is selected when the result is handled
StoreJobs(mm, jobs) ==
  [mm EXCEPT !.lastJobsForRun[mm.selectedRun] = jobs]

\* jobsLoadedMsg
OnJobsLoaded(mm, jobs) ==
  LET m1 == [mm EXCEPT !.loading = FALSE]
  IN  IF Gated(m1, jobs) THEN Ret(m1, <<>>)
      ELSE LET m2      == [m1 EXCEPT !.jobsPollStartIDs = Nil]
               oldJobs == m2.lastJobsForRun[m2.selectedRun]
               m3      == [m2 EXCEPT !.jobsItems = jobs]
               newJobs == NewJobs(oldJobs, jobs)
               m4      == AutoJump(m3, jobs, newJobs)
               m5      == StoreJobs(m4, jobs)
           IN  SyncSelectedJob(m5, jobs)

\* logsLoadedMsg: a non-empty log replaces the raw buffer; an empty one
\* shows the waiting text once
OnLogsLoaded(mm, rawContent) ==
  IF rawContent # <<>>
  THEN Ret(applyLogFilter([mm EXCEPT !.logRaw = rawContent,
                                     !.logLoaded = TRUE]), <<>>)
  ELSE IF ~mm.logLoaded
       THEN Ret([SetContent(mm, WaitingForLogs)
                   EXCEPT !.logContent = WaitingForLogs,
                          !.logLoaded = TRUE], <<>>)
       ELSE Ret(mm, <<>>)

\* a faulty logPollTickMsg handler, which polls in every view
OnLogPollTickInAnyView(mm) ==
  IF isRunning(mm.selectedJob.status)
  THEN Ret(mm, <<Cmd("fetchJobs", mm.selectedRun), Cmd("logPoll", 0)>>)
  ELSE Ret(mm, <<Cmd("fetchLogs", mm.selectedJob.id)>>)

\* a faulty logPollTickMsg handler, which fetches the full log of a running
\* job too
OnLogPollTickFetchingBoth(mm) ==
  IF mm.state = "Logs"
  THEN IF isRunning(mm.selectedJob.status)
       THEN Ret(mm, <<Cmd("fetchJobs", mm.selectedRun),
                      Cmd("fetchLogs", mm.selectedJob.id), Cmd("logPoll", 0)>>)
       ELSE Ret(mm, <<Cmd("fetchLogs", mm.selectedJob.id)>>)
  ELSE Ret(mm, <<>>)

\* a faulty logPollTickMsg handler, which arms the next tick for a job that
\* is not running too
OnLogPollTickRearming(mm) ==
  IF mm.state = "Logs"
  THEN IF isRunning(mm.selectedJob.status)
       THEN Ret(mm, <<Cmd("fetchJobs", mm.selectedRun), Cmd("logPoll", 0)>>)
       ELSE Ret(mm, <<Cmd("fetchLogs", mm.selectedJob.id), Cmd("logPoll", 0)>>)
  ELSE Ret(mm, <<>>)

\* logPollTickMsg
OnLogPollTick(mm) ==
  IF mm.state = "Logs"
  THEN IF isRunning(mm.selectedJob.status)
       THEN Ret(mm, <<Cmd("fetchJobs", mm.selectedRun), Cmd("logPoll", 0)>>)
       ELSE Ret(mm, <<Cmd("fetchLogs", mm.selectedJob.id)>>)
  ELSE Ret(mm, <<>>)

\* rerunMsg: the ids of the jobs list are captured as the poll start set
OnRerun(mm, message) ==
  LET m1 == [mm EXCEPT !.statusMsg = message,
                       !.jobsPollStartIDs = <<IdsOf(mm.jobsItems)>>]
      m2 == IF m1.state = "Jobs" THEN [m1 EXCEPT !.jobsItems = <<>>] ELSE m1
  IN  IF ~m2.jobsPolling
      THEN Ret([m2 EXCEPT !.jobsPolling = TRUE], <<Cmd("jobsPoll", 0)>>)
      ELSE Ret(m2, <<>>)

\* jobsPollTickMsg
OnJobsPollTick(mm) ==
  IF mm.jobsPolling
  THEN IF mm.state = "Jobs"
       THEN Ret(mm, <<Cmd("fetchJobs", mm.selectedRun), Cmd("jobsPoll", 0)>>)
       ELSE Ret(mm, <<Cmd("jobsPoll", 0)>>)
  ELSE Ret(mm, <<>>)

\* runsPollTickMsg
OnRunsPollTick(mm) ==
  IF mm.runsPolling
  THEN Ret(mm, <<FetchRunsOf(mm), Cmd("runsPoll", 0)>>)
  ELSE Ret(mm, <<>>)

\* a faulty errMsg handler, which drops the log text that is shown
OnErrDropsLog(mm) ==
  Ret([mm EXCEPT !.loading = FALSE, !.statusMsg = "error",
                 !.logRaw = <<>>, !.logContent = <<>>], <<>>)

\* errMsg
OnErr(mm) ==
  Ret([mm EXCEPT !.loading = FALSE, !.statusMsg = "error"], <<>>)

\* pipelineInfoMsg
OnPipelineInfo(mm, info) ==
  Ret([mm EXCEPT !.pipelineInfo = info], <<>>)

\* stepLogsMsg: the mark is raised and the content appended
OnStepLogs(mm, content, maxFetchedID) ==
  IF maxFetchedID > mm.stepLogsFetched
  THEN LET m1 == [mm EXCEPT !.stepLogsFetched = maxFetchedID]
       IN  IF content # <<>>
           THEN Ret(applyLogFilter(
                      [m1 EXCEPT !.logRaw = IF @ # <<>>
                                            THEN @ \o <<NL>> \o content
                                            ELSE content,
                                 !.logLoaded = TRUE]), <<>>)
           ELSE IF ~m1.logLoaded
                THEN Ret([SetContent(m1, WaitingForStepLogs)
                            EXCEPT !.logContent = WaitingForStepLogs,
                                   !.logLoaded = TRUE], <<>>)
                ELSE Ret(m1, <<>>)
  ELSE Ret(mm, <<>>)

\* workflowInputsMsg: the dispatch form is built (the ref field, then one
\* field for every input of the workflow) and shown
OnWorkflowInputs(mm, inputs) ==
  Ret([mm EXCEPT !.formFields = 1 + inputs, !.formActiveField = 0,
                 !.formButton = 0, !.state = "DispatchForm",
                 !.loading = FALSE],
      <<Cmd("fetchRefOptions", 0)>>)

\* dispatchTriggeredMsg: the run list is shown and fetched
OnDispatchTriggered(mm, message) ==
  Ret([mm EXCEPT !.loading = FALSE, !.statusMsg = message,
                 !.state = "Runs", !.formFields = 0],
      <<Cmd("fetchRuns", 0)>>)

\* Update: the handler of the message's type
Update(mm, e) ==
  CASE e.type = "key"          -> OnKey(mm, e.key)
    [] e.type = "windowSize"   -> OnWindowSize(mm, e.height)
    [] e.type = "runsLoaded"   -> OnRunsLoaded(mm, e.runs)
    [] e.type = "prsLoaded"    -> OnPRsLoaded(mm, e.prs)
    [] e.type = "jobsLoaded"   -> OnJobsLoaded(mm, e.jobs)
    [] e.type = "logsLoaded"   -> OnLogsLoaded(mm, e.content)
    [] e.type = "logPollTick"  -> OnLogPollTick(mm)
    [] e.type = "rerun"        -> OnRerun(mm, e.message)
    [] e.type = "jobsPollTick" -> OnJobsPollTick(mm)
    [] e.type = "runsPollTick" -> OnRunsPollTick(mm)
    [] e.type = "err"          -> OnErr(mm)
    [] e.type = "pipelineInfo" -> OnPipelineInfo(mm, e.info)
    [] e.type = "stepLogs"     -> OnStepLogs(mm, e.content, e.maxFetchedID)
    [] e.type = "workflowsLoaded" ->
         Ret([mm EXCEPT !.loading = FALSE, !.workflowsItems = e.workflows],
             <<>>)
    [] e.type = "workflowInputs" -> OnWorkflowInputs(mm, e.inputs)
    [] e.type = "refOptions"   -> Ret(mm, <<>>)
    [] e.type = "defaultBranch" ->
         Ret([mm EXCEPT !.defaultBranch = e.branch], <<>>)
    [] e.type = "dispatchTriggered" -> OnDispatchTriggered(mm, e.message)

(***************************************************************************)
(* The per-step log fetch of the data layer.                               *)
(***************************************************************************)
StepRec(n, st) == [number |-> n, status |-> st]

Digit(n) ==
  CASE n = 1 -> "1"
    [] n = 2 -> "2"
    [] n = 3 -> "3"
    [] OTHER -> "4"

\* the log of step n as the build API serves it
StepLog(n) == <<Digit(n), NL>>

RECURSIVE TrimRightNL(_)
\* strings.TrimRight(s, "\n")
TrimRightNL(s) ==
  IF s # <<>> /\ s[Len(s)] = NL THEN TrimRightNL(SubSeq(s, 1, Len(s) - 1))
  ELSE s

\* fetchLogFromURL: an error for a failing URL, the stripped text otherwise
fetchLogFromURL(n, fails) ==
  IF n \in fails THEN [err |-> TRUE, content |-> <<>>]
  ELSE [err |-> FALSE, content |-> processLogLines(StepLog(n))]

RECURSIVE FetchStepsFrom(_, _, _, _, _, _)
\* the loop of FetchNewStepLogs from step i on; urls are the steps the
\* timeline has a log URL for, acc is the builder, the new maximum and the
\* numbers of the steps fetched so far
FetchStepsFrom(steps, i, maxFetchedStepNum, urls, fails, acc) ==
  IF i > Len(steps) THEN acc
  ELSE LET step == steps[i]
           rest(a) == FetchStepsFrom(steps, i + 1, maxFetchedStepNum,
                                     urls, fails, a)
       IN  IF step.status # "completed" \/ step.number <= maxFetchedStepNum
           THEN rest(acc)
           ELSE IF step.number \notin urls THEN rest(acc)
           ELSE LET got == fetchLogFromURL(step.number, fails)
                IN  IF got.err THEN rest(acc)
                    ELSE rest([content |->
                                 (IF acc.content # <<>>
                                  THEN acc.content \o <<NL>> ELSE <<>>)
                                   \o TrimRightNL(got.content),
                               newMax |-> Max(acc.newMax, step.number),
                               fetched |-> acc.fetched \cup {step.number}])

\* a faulty FetchNewStepLogs, which fetches the completed steps at or below
\* the mark again
FetchAllStepLogs(steps, maxFetchedStepNum, urls, fails) ==
  FetchStepsFrom(steps, 1, 0, urls, fails,
                 [content |-> <<>>, newMax |-> maxFetchedStepNum,
                  fetched |-> {}])

\* FetchNewStepLogs with the timeline already read
FetchNewStepLogs(steps, maxFetchedStepNum, urls, fails) ==
  FetchStepsFrom(steps, 1, maxFetchedStepNum, urls, fails,
                 [content |-> <<>>, newMax |-> maxFetchedStepNum,
                  fetched |-> {}])

\* a faulty FetchLogRange, which counts the bytes of an archive body too
FetchLogRangeCountingAll(offset, resp) ==
  IF resp.kind = "response" /\ resp.status \in {200, 206} /\ ~resp.readError
  THEN [content |-> processLogLines(resp.data),
        newOffset |-> offset + Len(resp.data), err |-> FALSE]
  ELSE [content |-> <<>>, newOffset |-> offset,
        err |-> ~(resp.kind = "response" /\ resp.status = 416)]

\* FetchLogRange with the outcome of the GET: the request could not be
\* built, the transport failed, or a response came with its status, its
\* body and whether reading the body failed
FetchLogRange(offset, resp) ==
  LET failed  == [content |-> <<>>, newOffset |-> offset, err |-> TRUE]
      nothing == [content |-> <<>>, newOffset |-> offset, err |-> FALSE]
  IN  IF resp.kind # "response" THEN failed
      ELSE IF resp.status = 416 THEN nothing
      ELSE IF resp.status \notin {200, 206} THEN failed
      ELSE IF resp.readError THEN failed
      ELSE IF Len(resp.data) >= 2 /\ resp.data[1] = "P" /\ resp.data[2] = "K"
           THEN failed
      ELSE [content |-> processLogLines(resp.data),
            newOffset |-> offset + Len(resp.data), err |-> FALSE]

(***************************************************************************)
(* The remote side of the fetches.                                         *)
(***************************************************************************)
PRIds == {1}

\* the run lists ListRuns() can return
RunLists == {<<1, 2>>}

\* the run lists ListRunsForPR can return
PRRunLists == {<<2>>}

\* the pull request lists ListPullRequests can return
PRLists == {<<1>>}

WorkflowIds == {1}

\* the most inputs a workflow declares
MaxInputs == 1

\* the log of a finished job as the remote stores it
FinalLog(job) == IF job = 1 THEN <<"a", "b">> ELSE <<"c">>

\* the bodies the log endpoint can answer with
LogBodies(job) == {FinalLog(job)}

\* a log of three lines
LongLog == <<"a", NL, "B", NL, "a", "B">>

\* every text of at most n characters of an alphabet
Texts(alphabet, n) == UNION {[1..k -> alphabet] : k \in 0..n}

\* the timestamp the log service puts in front of a line
Stamp ==
  <<"2", "0", "2", "4", "-", "0", "1", "-", "0", "1", "T", "0", "0", ":",
    "0", "0", ":", "0", "0", ".", "0", "0", "0", "0", "0", "0", "0", "Z">>

RECURSIVE Stamped(_, _)
\* a line with k timestamps in front of it
Stamped(k, line) ==
  IF k = 0 THEN line ELSE Stamp \o <<" ">> \o Stamped(k - 1, line)

\* the outcomes of the GET of a byte-range fetch
RangeResponses ==
  {[kind |-> "requestError"], [kind |-> "transportError"]}
    \cup [kind : {"response"}, status : {200, 206, 416, 404, 500},
          readError : BOOLEAN,
          data : Texts({"P", "K", "a", NL}, MaxText)]

\* GetJobLogs: 404 is "not ready" (empty, no error); a body has its
\* timestamps stripped
GetJobLogs(status, body) ==
  IF status = 404 THEN <<>> ELSE processLogLines(body)

(***************************************************************************)
(* The state: the model, the batch the last Update returned, the message   *)
(* it handled, and the commands that are running (fetches in flight,       *)
(* timers pending).  Two observers record what the claims speak about:     *)
(* sinceDone counts the full-log fetches issued since the Logs view saw    *)
(* its job finish (-1: not counting), stepAux records the last per-step    *)
(* fetch (the mark it was given, the steps it fetched) and the completed   *)
(* steps that calls have skipped and no call has fetched since.  probe     *)
(* holds the last call of a function of the data layer or of the filter    *)
(* that was made on its own: its name, its arguments and its result.       *)
(***************************************************************************)
VARIABLES m, cmds, msg, pend, sinceDone, stepAux, probe

vars == <<m, cmds, msg, pend, sinceDone, stepAux, probe>>

TimerCmds == {Cmd("runsPoll", 0), Cmd("jobsPoll", 0), Cmd("logPoll", 0)}

FetchCmds ==
  {Cmd("fetchRuns", 0), Cmd("fetchPRs", 0)}
    \cup {Cmd("fetchRunsForPR", pr) : pr \in PRIds}
    \cup {Cmd("fetchJobs", r) : r \in RunIds}
    \cup {Cmd("fetchLogs", j) : j \in JobIds}
    \cup {Cmd(k, r) : k \in {"rerunFailed", "rerunAll"}, r \in RunIds}
    \cup {Cmd("fetchStepLogs", k) : k \in 0..MaxSteps}
    \cup {Cmd("fetchWorkflows", 0), Cmd("fetchDefaultBranch", 0),
          Cmd("fetchRefOptions", 0)}
    \cup {Cmd(k, wf) : k \in {"fetchWorkflowInputs", "triggerDispatch"},
                       wf \in WorkflowIds}

CmdDomain == TimerCmds \cup FetchCmds

NoCmd == Cmd("none", 0)

NoStepAux == [given |-> 0, fetched |-> {}, skipped |-> {}]

\* the sum of p[c] over the commands c of S: one pair for every running
\* instance of a command
SumOver(S, p) == Cardinality(UNION {{<<c, k>> : k \in 1..p[c]} : c \in S})

\* how often a batch holds a command
Count(cs, c) == Cardinality({i \in DOMAIN cs : cs[i] = c})

\* how many full-log fetches a batch holds
FullLogFetches(cs) == Cardinality({i \in DOMAIN cs : cs[i].c = "fetchLogs"})

\* the running commands after a message was handled: the command that
\* produced the message is done, the batch is started
After(cs, used) ==
  [c \in CmdDomain |-> pend[c] + Count(cs, c) - (IF c = used THEN 1 ELSE 0)]

\* the bounds on the running commands
Within(p) ==
  /\ SumOver(FetchCmds, p) <= MaxInflight
  /\ \A t \in TimerCmds : p[t] <= MaxTimers

\* the Logs view sees its job go from running to not running
SeesJobFinish(mm, e, next) ==
  /\ e.type = "jobsLoaded"
  /\ mm.state = "Logs"
  /\ isRunning(mm.selectedJob.status)
  /\ ~isRunning(next.selectedJob.status)

\* the key presses that reset the log buffer: enter on a job in Jobs, and
\* the manual refresh r in Logs
ResetsLog(mm, e) ==
  /\ e.type = "key"
  /\ \/ /\ mm.state = "Jobs"
        /\ e.key = "enter"
        /\ HasSelected(mm.jobsItems, mm.jobsIdx)
     \/ mm.state = "Logs" /\ e.key = "r"

\* One turn of the event loop: Update handles the message e that the
\* command `used` produced (NoCmd for a key press); sa is the record of the
\* per-step fetches after it.  After tea.Quit the loop has ended.
Handle(e, used, sa) ==
  \E r \in {Update(m, e)} :
  \E p \in {After(r.cmds, used)} :
      /\ \A i \in DOMAIN cmds : cmds[i] # Quit
      /\ Within(p)
      /\ m' = r.m
      /\ cmds' = r.cmds
      /\ msg' = e
      /\ pend' = p
      /\ sinceDone' =
           IF SeesJobFinish(m, e, r.m) THEN FullLogFetches(r.cmds)
           ELSE IF e.type = "key" \/ sinceDone < 0 THEN -1
           ELSE Min(sinceDone + FullLogFetches(r.cmds), MaxCount)
      /\ stepAux' = sa
      /\ probe' = probe

Step(e, used) ==
  Handle(e, used, IF ResetsLog(m, e) THEN NoStepAux ELSE stepAux)

Init ==
  /\ m = InitModel
  /\ cmds = <<>>
  /\ msg = [type |-> "init"]
  /\ pend = [c \in CmdDomain |-> 0]
  /\ sinceDone = -1
  /\ stepAux = NoStepAux
  /\ probe = [fn |-> "none"]

(***************************************************************************)
(* Key presses.                                                            *)
(***************************************************************************)
Key(k) == Step([type |-> "key", key |-> k], NoCmd)

\* a key pressed while one view is current
KeyIn(state, k) == m.state = state /\ Key(k)

MenuEnter == KeyIn("Menu", "enter")

MenuMove == \E k \in {"up", "down"} : KeyIn("Menu", k)

RunsEnter == KeyIn("Runs", "enter")

RunsMove == \E k \in {"up", "down"} : KeyIn("Runs", k)

RunsBack == KeyIn("Runs", "esc")

RunsRerun == \E k \in {"r", "R"} : KeyIn("Runs", k)

RunsRefresh == KeyIn("Runs", "tab")

JobsEnter == KeyIn("Jobs", "enter")

JobsMove == \E k \in {"up", "down"} : KeyIn("Jobs", k)

JobsBack == KeyIn("Jobs", "esc")

JobsRerun == \E k \in {"r", "R"} : KeyIn("Jobs", k)

JobsRefresh == KeyIn("Jobs", "tab")

LogsBack == KeyIn("Logs", "esc")

LogsRefresh == KeyIn("Logs", "r")

PRsEnter == KeyIn("PRs", "enter")

PRsMove == \E k \in {"up", "down"} : KeyIn("PRs", k)

PRsBack == KeyIn("PRs", "esc")

PRsRefresh == KeyIn("PRs", "tab")

(***************************************************************************)
(* Results of commands.                                                    *)
(***************************************************************************)
RecvRunsLoaded ==
  /\ pend[Cmd("fetchRuns", 0)] > 0
  /\ \E runs \in RunLists :
       Step([type |-> "runsLoaded", runs |-> runs], Cmd("fetchRuns", 0))

RecvPRRunsLoaded ==
  \E pr \in PRIds :
    /\ pend[Cmd("fetchRunsForPR", pr)] > 0
    /\ \E runs \in PRRunLists :
         Step([type |-> "runsLoaded", runs |-> runs],
              Cmd("fetchRunsForPR", pr))

RecvPRsLoaded ==
  /\ pend[Cmd("fetchPRs", 0)] > 0
  /\ \E prs \in PRLists :
       Step([type |-> "prsLoaded", prs |-> prs], Cmd("fetchPRs", 0))

\* the result of the job-list fetch of run r, one of the given lists
RecvJobs(r, lists) ==
  /\ pend[Cmd("fetchJobs", r)] > 0
  /\ \E jobs \in lists :
       Step([type |-> "jobsLoaded", jobs |-> jobs, run |-> r],
            Cmd("fetchJobs", r))

RecvJobsLoaded == \E r \in RunIds : RecvJobs(r, JobLists(r))

\* the job list of a run whose one job keeps running
RecvJobsRunning == RecvJobs(1, {<<Job(1, "in_progress")>>})

RecvLogsLoaded ==
  \E j \in JobIds :
    /\ pend[Cmd("fetchLogs", j)] > 0
    /\ \E content \in {GetJobLogs(404, <<>>)}
                        \cup {GetJobLogs(200, b) : b \in LogBodies(j)} :
         Step([type |-> "logsLoaded", content |-> content, job |-> j],
              Cmd("fetchLogs", j))

\* the result of a full-log fetch of a job whose log is one of the bodies
RecvLogsOf(bodies) ==
  \E j \in JobIds :
    /\ pend[Cmd("fetchLogs", j)] > 0
    /\ \E b \in bodies :
         Step([type |-> "logsLoaded", content |-> GetJobLogs(200, b),
               job |-> j],
              Cmd("fetchLogs", j))

\* the terminal is resized: the log viewport gets one row or two rows
Resize ==
  \E h \in {5, 6} :
    Step([type |-> "windowSize", height |-> h], NoCmd)

RecvRerunFailed ==
  \E r \in RunIds :
    /\ pend[Cmd("rerunFailed", r)] > 0
    /\ Step([type |-> "rerun", runID |-> r,
             message |-> "Re-run triggered for failed jobs!"],
            Cmd("rerunFailed", r))

RecvRerunAll ==
  \E r \in RunIds :
    /\ pend[Cmd("rerunAll", r)] > 0
    /\ Step([type |-> "rerun", runID |-> r,
             message |-> "Re-run triggered for all jobs!"],
            Cmd("rerunAll", r))

\* any fetch can fail: its command returns errMsg (but for the fetch of
\* the default branch, which answers "main" then)
RecvErr ==
  \E c \in FetchCmds \ {Cmd("fetchDefaultBranch", 0)} :
    /\ pend[c] > 0
    /\ Step([type |-> "err"], c)

LogPollTick ==
  /\ pend[Cmd("logPoll", 0)] > 0
  /\ Step([type |-> "logPollTick"], Cmd("logPoll", 0))

JobsPollTick ==
  /\ pend[Cmd("jobsPoll", 0)] > 0
  /\ Step([type |-> "jobsPollTick"], Cmd("jobsPoll", 0))

RunsPollTick ==
  /\ pend[Cmd("runsPoll", 0)] > 0
  /\ Step([type |-> "runsPollTick"], Cmd("runsPoll", 0))

(***************************************************************************)
(* The per-step log poll.  While the job of the Logs view is running, the  *)
(* per-step fetch is started with the current high-water mark; its result  *)
(* is computed by FetchNewStepLogs from the steps and the timeline the     *)
(* remote has when the fetch runs.                                         *)
(***************************************************************************)
\* the steps of a job of which the first `done` are completed
StepsOf(done) ==
  [i \in 1..MaxSteps |->
     StepRec(i, IF i <= done THEN "completed" ELSE "in_progress")]

IssueStepLogs ==
  /\ m.state = "Logs"
  /\ isRunning(m.selectedJob.status)
  /\ LET c == Cmd("fetchStepLogs", m.stepLogsFetched)
         p == After(<<c>>, NoCmd)
     IN  /\ Within(p)
         /\ pend' = p
         /\ cmds' = <<c>>
         /\ msg' = [type |-> "stepPoll"]
  /\ UNCHANGED <<m, sinceDone, stepAux, probe>>

RecvStepLogs ==
  \E k \in 0..MaxSteps :
    /\ pend[Cmd("fetchStepLogs", k)] > 0
    /\ \E done \in 0..MaxSteps :
         \E urls \in SUBSET (1..done) :
           \E fails \in SUBSET urls :
             LET res == FetchNewStepLogs(StepsOf(done), k, urls, fails)
                 skippedNow == {i \in 1..done : i > k /\ i \notin res.fetched}
             IN  Handle([type |-> "stepLogs", content |-> res.content,
                         maxFetchedID |-> res.newMax],
                        Cmd("fetchStepLogs", k),
                        [given   |-> k,
                         fetched |-> res.fetched,
                         skipped |-> (stepAux.skipped \ res.fetched)
                                       \cup skippedNow])

(***************************************************************************)
(* Specifications.  Each one is the program under one way of using it.     *)
(***************************************************************************)
\* Runs and Jobs of one run, with reruns; the log view is not opened.
Next ==
  \/ MenuEnter
  \/ RunsEnter
  \/ RunsBack
  \/ RunsRerun
  \/ RunsRefresh
  \/ JobsMove
  \/ JobsBack
  \/ JobsRerun
  \/ JobsRefresh
  \/ RecvRunsLoaded
  \/ RecvJobsLoaded
  \/ RecvRerunFailed
  \/ RecvRerunAll
  \/ RecvErr
  \/ JobsPollTick
  \/ RunsPollTick

Spec == Init /\ [][Next]_vars

\* The log views of the jobs of one run, without reruns.
NextLogs ==
  \/ MenuEnter
  \/ RunsEnter
  \/ JobsEnter
  \/ JobsMove
  \/ JobsBack
  \/ LogsBack
  \/ LogsRefresh
  \/ RecvRunsLoaded
  \/ RecvJobsLoaded
  \/ RecvLogsLoaded
  \/ RecvErr
  \/ LogPollTick
  \/ JobsPollTick

SpecLogs == Init /\ [][NextLogs]_vars

\* Reruns triggered in Jobs, and the log view of the first job.
NextRerunLogs ==
  \/ MenuEnter
  \/ RunsEnter
  \/ JobsEnter
  \/ JobsRerun
  \/ RecvRunsLoaded
  \/ RecvJobsLoaded
  \/ RecvLogsLoaded
  \/ RecvRerunFailed
  \/ RecvRerunAll
  \/ RecvErr
  \/ LogPollTick
  \/ JobsPollTick

SpecRerunLogs == Init /\ [][NextRerunLogs]_vars

\* The log view of a job that keeps running, with the per-step log poll.
NextSteps ==
  \/ MenuEnter
  \/ RunsEnter
  \/ JobsEnter
  \/ LogsRefresh
  \/ RecvRunsLoaded
  \/ RecvJobsRunning
  \/ RecvErr
  \/ LogPollTick
  \/ IssueStepLogs
  \/ RecvStepLogs

SpecSteps == Init /\ [][NextSteps]_vars

\* The log view of the one job of a run, which is queued, running or
\* completed; the view is scrolled and resized.
NextScroll ==
  \/ MenuEnter
  \/ RunsEnter
  \/ JobsEnter
  \/ LogsBack
  \/ \E k \in ScrollKeys : KeyIn("Logs", k)
  \/ Resize
  \/ RecvRunsLoaded
  \/ RecvJobs(1, ListsOver(<<1>>) \cup {<<Job(1, "queued")>>})
  \/ RecvLogsOf({LongLog})
  \/ RecvErr
  \/ LogPollTick

SpecScroll == Init /\ [][NextScroll]_vars

\* The functions of the log text, each called on its own: the filter on a
\* raw log and a query, the timestamp stripping on a line, the byte-range
\* fetch on an offset and the outcome of its GET.  A behaviour is one call.
NextFunctions ==
  \/ /\ probe.fn = "none"
     /\ \E raw \in Texts({"a", "A", "b", NL}, MaxText) :
          \E q \in Texts({"a", "A", "B"}, MaxQuery) :
            probe' = [fn |-> "applyLogFilter", raw |-> raw, q |-> q,
                      out |-> FilterOutput(raw, q)]
     /\ UNCHANGED <<m, cmds, msg, pend, sinceDone, stepAux>>
  \/ /\ probe.fn = "none"
     /\ \E k \in 0..MaxStamps :
          \E text \in {<<>>, <<"a">>, <<"a", "b">>, <<"a", " ", "b">>} :
            probe' = [fn |-> "processLogLines", line |-> Stamped(k, text),
                      out |-> processLogLines(Stamped(k, text))]
     /\ UNCHANGED <<m, cmds, msg, pend, sinceDone, stepAux>>
  \/ /\ probe.fn = "none"
     /\ \E offset \in 0..MaxRangeOffset :
          \E resp \in RangeResponses :
            probe' = [fn |-> "FetchLogRange", offset |-> offset,
                      resp |-> resp, out |-> FetchLogRange(offset, resp)]
     /\ UNCHANGED <<m, cmds, msg, pend, sinceDone, stepAux>>

SpecFunctions == Init /\ [][NextFunctions]_vars

\* Runs and Jobs of the first run, with the filter input of the runs list.
NextRunsFilter ==
  \/ MenuEnter
  \/ RunsEnter
  \/ RunsBack
  \/ KeyIn("Runs", "/")
  \/ JobsBack
  \/ RecvRunsLoaded
  \/ RecvJobsLoaded
  \/ RecvErr
  \/ JobsPollTick
  \/ RunsPollTick

SpecRunsFilter == Init /\ [][NextRunsFilter]_vars

\* Jobs of the first run entered and left again, with reruns triggered in
\* Jobs only.  Timers fire and fetches complete: a pending timer ticks and
\* a fetch in flight returns its result (or, at any time, an error).
NextLeave ==
  \/ MenuEnter
  \/ RunsEnter
  \/ JobsBack
  \/ JobsRerun
  \/ RecvRunsLoaded
  \/ RecvJobsLoaded
  \/ RecvRerunFailed
  \/ RecvRerunAll
  \/ RecvErr
  \/ JobsPollTick

SpecLeave ==
  /\ Init
  /\ [][NextLeave]_vars
  /\ WF_vars(JobsPollTick)
  /\ WF_vars(RecvRunsLoaded)
  /\ WF_vars(RecvJobsLoaded)
  /\ WF_vars(RecvRerunFailed)
  /\ WF_vars(RecvRerunAll)

\* The log view of a completed job is filtered and scrolled, then left;
\* the keys of the log view are pressed in the other views, and ctrl+c in
\* every view.
NextOutside ==
  \/ MenuEnter
  \/ RunsEnter
  \/ RunsBack
  \/ JobsEnter
  \/ JobsBack
  \/ LogsBack
  \/ \E k \in {"g", "a", "/", "enter"} :
       Len(m.logFilter) < MaxQuery /\ KeyIn("Logs", k)
  \/ \E k \in ScrollKeys \cup {"c", "/"} : m.state # "Logs" /\ Key(k)
  \/ Key("ctrl+c")
  \/ Resize
  \/ RecvRunsLoaded
  \/ RecvJobs(1, {<<Job(1, "completed")>>})
  \/ RecvLogsOf({LongLog, ErrorMarker \o <<"a">>})
  \/ RecvErr

SpecOutside == Init /\ [][NextOutside]_vars

\* The log view of the one job of the first run, entered and left but not
\* refreshed.  Timers fire and fetches complete: a pending timer ticks and
\* a fetch in flight returns its result or an error; a job-list fetch that
\* is issued again and again does not fail every time.
NextWatch ==
  \/ MenuEnter
  \/ RunsEnter
  \/ JobsEnter
  \/ LogsBack
  \/ RecvRunsLoaded
  \/ RecvJobs(1, ListsOver(<<1>>))
  \/ RecvLogsLoaded
  \/ RecvErr
  \/ LogPollTick
  \/ JobsPollTick

SpecWatch ==
  /\ Init
  /\ [][NextWatch]_vars
  /\ WF_vars(LogPollTick)
  /\ WF_vars(JobsPollTick)
  /\ WF_vars(RecvRunsLoaded)
  /\ SF_vars(RecvJobs(1, ListsOver(<<1>>)))
  /\ WF_vars(RecvLogsLoaded)

\* The Jobs of both runs, entered one after the other while job-list
\* fetches are in flight.
NextTwoRuns ==
  \/ MenuEnter
  \/ RunsEnter
  \/ RunsMove
  \/ JobsBack
  \/ RecvRunsLoaded
  \/ RecvJobsLoaded
  \/ RecvErr
  \/ JobsPollTick

SpecTwoRuns == Init /\ [][NextTwoRuns]_vars

\* The dispatch of a workflow: the workflow list from Runs, the dispatch
\* form, and the ways into and out of Runs by the menu and a pull request.
NextDispatch ==
  \/ MenuEnter
  \/ MenuMove
  \/ PRsEnter
  \/ PRsBack
  \/ RunsBack
  \/ KeyIn("Runs", "d")
  \/ \E k \in {"enter", "esc"} : KeyIn("Workflows", k)
  \/ \E k \in {"tab", "shift+tab", "left", "enter", "esc"} :
       KeyIn("DispatchForm", k)
  \/ RecvRunsLoaded
  \/ RecvPRsLoaded
  \/ RecvPRRunsLoaded
  \/ /\ pend[Cmd("fetchWorkflows", 0)] > 0
     /\ Step([type |-> "workflowsLoaded", workflows |-> <<1>>],
             Cmd("fetchWorkflows", 0))
  \/ /\ pend[Cmd("fetchDefaultBranch", 0)] > 0
     /\ Step([type |-> "defaultBranch", branch |-> "main"],
             Cmd("fetchDefaultBranch", 0))
  \/ \E wf \in WorkflowIds, n \in 0..MaxInputs :
       /\ pend[Cmd("fetchWorkflowInputs", wf)] > 0
       /\ Step([type |-> "workflowInputs", inputs |-> n],
               Cmd("fetchWorkflowInputs", wf))
  \/ /\ pend[Cmd("fetchRefOptions", 0)] > 0
     /\ Step([type |-> "refOptions"], Cmd("fetchRefOptions", 0))
  \/ \E wf \in WorkflowIds :
       /\ pend[Cmd("triggerDispatch", wf)] > 0
       /\ Step([type |-> "dispatchTriggered",
                message |-> "Workflow dispatched"],
               Cmd("triggerDispatch", wf))
  \/ RecvErr
  \/ RunsPollTick

SpecDispatch == Init /\ [][NextDispatch]_vars

(***************************************************************************)
(* Properties.                                                             *)
(***************************************************************************)
\* the job of a list with the given id
JobWithId(jobs, id) == jobs[CHOOSE i \in DOMAIN jobs : jobs[i].id = id]

\* the index (from 0) of the first job of the list whose id is not in S
FirstOutside(jobs, S) ==
  (CHOOSE i \in DOMAIN jobs :
     jobs[i].id \notin S /\ \A k \in 1..(i - 1) : jobs[k].id \in S) - 1

\* C1: rerun auto-jump.  In Jobs, with S the poll start set: a job-list
\* result whose ids are all in S leaves the jobs list empty and the poll
\* start set as it is; a result with an id outside S ends the waiting,
\* shows the result and selects its first job whose id is outside S.
C1_RerunAutoJump ==
  [][(msg'.type = "jobsLoaded" /\ m.state = "Jobs"
        /\ m.jobsPollStartIDs # Nil)
       => LET S == m.jobsPollStartIDs[1]
              N == msg'.jobs
          IN  IF IdsOf(N) \subseteq S
              THEN /\ m'.jobsItems = <<>>
                   /\ m'.jobsPollStartIDs = m.jobsPollStartIDs
              ELSE /\ m'.jobsPollStartIDs = Nil
                   /\ m'.jobsItems = N
                   /\ m'.jobsIdx = FirstOutside(N, S)]_vars

\* C2: after the Logs view saw its job go from running to not running,
\* exactly one full-log fetch has been issued for that transition, the
\* fetches of pending log-poll ticks included.
C2_OneFullLogFetch == sinceDone >= 0 => sinceDone = 1

\* C3: while the Logs view stays open, the raw log buffer only grows by
\* appending; entering Logs from Jobs and r in Logs reset it to empty.
C3_LogRawAppendOnly ==
  [][IF ResetsLog(m, msg') THEN m'.logRaw = <<>>
     ELSE (m.state = "Logs" /\ m'.state = "Logs")
            => IsPrefixOf(m.logRaw, m'.logRaw)]_vars

\* C4: for the cached list O of the selected run and every job list N a
\* fetch can return, newJobs is the jobs of N whose id is not in O, in N's
\* order, and is empty when O and N have the same ids.
C4_NewJobsIsDifference ==
  \A r \in RunIds : \A N \in JobLists(r) :
    LET O == m.lastJobsForRun[m.selectedRun]
        NotInO(j) == j.id \notin IdsOf(O)
    IN  /\ NewJobs(O, N) = SelectSeq(N, NotInO)
        /\ IdsOf(O) = IdsOf(N) => NewJobs(O, N) = <<>>

\* C4: a job-list result with two jobs was handled in Jobs, its second job
\* was the new one and was jumped to
C4_Witness ==
  /\ msg.type = "jobsLoaded"
  /\ Len(msg.jobs) = 2
  /\ m.statusMsg = "Jumped to re-triggered job"
  /\ m.jobsIdx = 1

\* C5 as stated: the step-log high-water mark never decreases, and a
\* per-step fetch never fetches a step at or below the mark it was given.
C5_MarkNeverDecreases ==
  [][/\ m'.stepLogsFetched >= m.stepLogsFetched
     /\ \A n \in stepAux'.fetched : n > stepAux'.given]_vars

\* C5, amended: the step-log high-water mark never decreases except that
\* entering Logs from Jobs and r in Logs reset it to zero; a per-step fetch
\* never fetches a step at or below the mark it was given and returns a
\* mark that is not below it.
C5_MarkDecreasesOnlyByReset ==
  [][/\ \/ m'.stepLogsFetched >= m.stepLogsFetched
        \/ ResetsLog(m, msg') /\ m'.stepLogsFetched = 0
     /\ \A n \in stepAux'.fetched : n > stepAux'.given
     /\ msg'.type = "stepLogs" => msg'.maxFetchedID >= stepAux'.given]_vars

\* C5: a per-step fetch given the mark 1 fetched the steps 2 and 3, and
\* the mark is 3
C5_Witness ==
  /\ msg.type = "stepLogs"
  /\ stepAux.given = 1
  /\ stepAux.fetched = {2, 3}
  /\ m.stepLogsFetched = 3

\* C6: a completed step above the mark that a per-step fetch skipped (no
\* log URL, or its fetch failed) is still eligible in the next fetch: it is
\* above the mark the next fetch is given.
C6_SkippedStillEligible ==
  \A n \in stepAux.skipped : n > m.stepLogsFetched

\* C7: after a job-list result is handled, the cache entry of the selected
\* run is the fetched list, also while the rerun waiting mode is active.
C7_CacheIsFetchedList ==
  msg.type = "jobsLoaded" => m.lastJobsForRun[m.selectedRun] = msg.jobs

\* C8: an error result only sets the status message and clears the loading
\* flag; everything else of the model is unchanged and nothing is issued.
C8_ErrorOnlySetsStatus ==
  [][msg'.type = "err"
       => /\ m' = [m EXCEPT !.statusMsg = m'.statusMsg, !.loading = FALSE]
          /\ m'.statusMsg = "error"
          /\ cmds' = <<>>]_vars

\* C8: an error arrived in Logs while log text is shown
C8_Witness ==
  /\ msg.type = "err"
  /\ m.state = "Logs"
  /\ m.logRaw # <<>>
  /\ m.logContent # <<>>
  /\ m.statusMsg = "error"

\* C9: in Logs, a job-list result that holds the selected job's id replaces
\* selectedJob by the fresh record, whatever the other flags are.
C9_LogsSyncsSelectedJob ==
  (msg.type = "jobsLoaded" /\ m.state = "Logs"
     /\ m.selectedJob.id \in IdsOf(msg.jobs))
    => m.selectedJob = JobWithId(msg.jobs, m.selectedJob.id)

\* C10: a job-list result that does not hold the selected job's id leaves
\* selectedJob unchanged, in every view state.
C10_AbsentJobUntouched ==
  [][(msg'.type = "jobsLoaded" /\ m.selectedJob.id \notin IdsOf(msg'.jobs))
       => m'.selectedJob = m.selectedJob]_vars

\* C10: in Logs on a job, a job-list result without that job was handled
C10_Witness ==
  /\ msg.type = "jobsLoaded"
  /\ m.state = "Logs"
  /\ m.selectedJob.id # 0
  /\ msg.jobs # <<>>
  /\ m.selectedJob.id \notin IdsOf(msg.jobs)

\* C11: entering Logs from Jobs sets auto-scroll, and after that only key
\* presses change it: no fetch result, timer tick, error or resize does.
C11_AutoScrollOnlyByKeys ==
  [][/\ (msg'.type = "key" /\ msg'.key = "enter" /\ m.state = "Jobs"
           /\ HasSelected(m.jobsItems, m.jobsIdx))
          => (m'.state = "Logs" /\ m'.autoScroll)
     /\ msg'.type # "key" => m'.autoScroll = m.autoScroll]_vars

\* C11: a log of several lines arrived in Logs while auto-scroll was off,
\* and the view stayed above the bottom
C11_Witness ==
  /\ msg.type = "logsLoaded"
  /\ m.state = "Logs"
  /\ ~m.autoScroll
  /\ m.logRaw # <<>>
  /\ m.yOffset < MaxOffset(m)

\* C12: after back from Logs, enter in Jobs on the job that was shown
\* resets the raw log, the rendered log, the loaded flag, the filter and
\* the step mark, and issues a fresh fetch: the full log of a job that is
\* not running, the job list and a log-poll timer for a running one.
C12_ReentryResetsAndRefetches ==
  [][(msg'.type = "key" /\ msg'.key = "enter" /\ m.state = "Jobs"
        /\ HasSelected(m.jobsItems, m.jobsIdx)
        /\ SelectedItem(m.jobsItems, m.jobsIdx).id = m.selectedJob.id)
       => LET job == SelectedItem(m.jobsItems, m.jobsIdx)
          IN  /\ m'.state = "Logs"
              /\ m'.selectedJob = job
              /\ m'.logRaw = <<>>
              /\ m'.logContent = <<>>
              /\ ~m'.logLoaded
              /\ m'.logFilter = <<>>
              /\ m'.stepLogsFetched = 0
              /\ cmds' = IF isRunning(job.status)
                         THEN <<Cmd("fetchJobs", m.selectedRun),
                                Cmd("logPoll", 0)>>
                         ELSE <<Cmd("fetchLogs", job.id)>>]_vars

\* C12: Logs was entered again for the job whose log of three lines the
\* viewport still holds from the last visit; the buffer is empty and the
\* full log is fetched again
C12_Witness ==
  /\ msg.type = "key"
  /\ msg.key = "enter"
  /\ m.state = "Logs"
  /\ m.vpLines = Height(LongLog)
  /\ m.logRaw = <<>>
  /\ ~m.logLoaded
  /\ cmds = <<Cmd("fetchLogs", m.selectedJob.id)>>

C14_StripIsIdempotent ==
  probe.fn = "processLogLines" =>
    /\ processLogLines(probe.out) = probe.out
    /\ ~HasPrefix(probe.line, Stamp) => probe.out = probe.line

\* C15: FetchLogRange returns offset plus the number of bytes received for
\* a 200 or 206 response whose body was read and is not an archive; in
\* every other case it returns the offset it was given and no content,
\* without an error for a 416 response and with an error otherwise.
C15_RangeAdvancesByBytesRead ==
  probe.fn = "FetchLogRange" =>
    LET resp    == probe.resp
        out     == probe.out
        got     == resp.kind = "response"
        archive == HasPrefix(resp.data, <<"P", "K">>)
    IN  IF got /\ resp.status \in {200, 206} /\ ~resp.readError /\ ~archive
        THEN /\ out.newOffset = probe.offset + Len(resp.data)
             /\ ~out.err
        ELSE /\ out.newOffset = probe.offset
             /\ out.content = <<>>
             /\ out.err <=> ~(got /\ resp.status = 416)

\* C15: a fetch from offset 2 got a 206 response with three bytes and
\* returned the offset 5
C15_Witness ==
  /\ probe.fn = "FetchLogRange"
  /\ probe.offset = 2
  /\ probe.resp.kind = "response"
  /\ probe.resp.status = 206
  /\ probe.resp.data = <<"a", NL, "a">>
  /\ probe.out.newOffset = 5
  /\ probe.out.content = <<"a", NL, "a">>
  /\ ~probe.out.err

\* C16: every successful rerun captures as poll start set the ids of the
\* jobs of the rerun run as they were last fetched and stored, whether it
\* was triggered in Runs or in Jobs, a second rerun while waiting included.
C16_StartSetIsJobsOfRun ==
  msg.type = "rerun"
    => m.jobsPollStartIDs = <<IdsOf(m.lastJobsForRun[msg.runID])>>

\* C17 as stated: enter in Runs with a run selected moves to Jobs, sets
\* the job polling flag and issues the job-list fetch of that run and a
\* jobs-poll timer, nothing else.
C17_EnterRunsOpensJobs ==
  [][(msg'.type = "key" /\ msg'.key = "enter" /\ m.state = "Runs"
        /\ HasSelected(m.runsItems, m.runsIdx))
       => LET run == SelectedItem(m.runsItems, m.runsIdx)
          IN  /\ m'.state = "Jobs"
              /\ m'.jobsPolling
              /\ cmds' = <<Cmd("fetchJobs", run), Cmd("jobsPoll", 0)>>]_vars

\* C17, amended: enter in Runs with a run selected, while the filter input
\* of the runs list is not open, moves to Jobs, sets the job polling flag
\* and issues the job-list fetch of that run and a jobs-poll timer, nothing
\* else; while the filter input is open, enter stays in Runs and issues
\* nothing.
C17_EnterRunsOpensJobsUnlessFiltering ==
  [][(msg'.type = "key" /\ msg'.key = "enter" /\ m.state = "Runs"
        /\ HasSelected(m.runsItems, m.runsIdx))
       => LET run == SelectedItem(m.runsItems, m.runsIdx)
          IN  IF m.runsFiltering
              THEN m'.state = "Runs" /\ cmds' = <<>>
              ELSE /\ m'.state = "Jobs"
                   /\ m'.jobsPolling
                   /\ m'.selectedRun = run
                   /\ cmds' = <<Cmd("fetchJobs", run), Cmd("jobsPoll", 0)>>]_vars

\* C17: enter in Runs opened the jobs of the first run; the job-list fetch
\* is in flight and the jobs-poll timer is pending
C17_Witness ==
  /\ msg.type = "key"
  /\ msg.key = "enter"
  /\ m.state = "Jobs"
  /\ m.selectedRun = 1
  /\ m.jobsPolling
  /\ pend[Cmd("fetchJobs", 1)] > 0
  /\ pend[Cmd("jobsPoll", 0)] > 0

\* C18: enter in Jobs with a job selected moves to Logs; for a running job
\* (in_progress or queued) it issues a job-list fetch and a log-poll timer
\* and no full-log fetch; for any other job it issues exactly one full-log
\* fetch and no log-poll timer.
C18_EnterJobsFetchesByStatus ==
  [][(msg'.type = "key" /\ msg'.key = "enter" /\ m.state = "Jobs"
        /\ HasSelected(m.jobsItems, m.jobsIdx))
       => LET job == SelectedItem(m.jobsItems, m.jobsIdx)
          IN  /\ m'.state = "Logs"
              /\ IF job.status \in {"in_progress", "queued"}
                 THEN /\ Count(cmds', Cmd("fetchJobs", m.selectedRun)) = 1
                      /\ Count(cmds', Cmd("logPoll", 0)) = 1
                      /\ FullLogFetches(cmds') = 0
                 ELSE /\ cmds' = <<Cmd("fetchLogs", job.id)>>
                      /\ Count(cmds', Cmd("logPoll", 0)) = 0]_vars

\* C18: Logs was entered for a queued job; the job list is fetched and the
\* log-poll timer armed
C18_Witness ==
  /\ msg.type = "key"
  /\ msg.key = "enter"
  /\ m.state = "Logs"
  /\ m.selectedJob.status = "queued"
  /\ cmds = <<Cmd("fetchJobs", m.selectedRun), Cmd("logPoll", 0)>>

\* C19: back from Logs to Jobs sets the job polling flag and arms a
\* jobs-poll timer, and a log-poll tick that arrives while the state is not
\* Logs issues no fetch, arms no timer and changes nothing.
C19_BackStopsLogPollResumesJobPoll ==
  [][/\ (m.state = "Logs" /\ m'.state = "Jobs")
          => /\ m'.jobsPolling
             /\ Count(cmds', Cmd("jobsPoll", 0)) = 1
             /\ pend'[Cmd("jobsPoll", 0)] > 0
     /\ (msg'.type = "logPollTick" /\ m.state # "Logs")
          => (cmds' = <<>> /\ m' = m)]_vars

\* C19: after back from the log view of a running job, its log-poll tick
\* arrived in Jobs and issued nothing; job polling is active
C19_Witness ==
  /\ msg.type = "logPollTick"
  /\ m.state = "Jobs"
  /\ isRunning(m.selectedJob.status)
  /\ cmds = <<>>
  /\ pend[Cmd("logPoll", 0)] = 0
  /\ m.jobsPolling
  /\ pend[Cmd("jobsPoll", 0)] > 0

\* C20: back from Jobs to Runs clears the job polling flag and the poll
\* start set; while the user stays in Runs and triggers no rerun there, no
\* job-list fetch is issued and eventually no jobs-poll timer is pending.
C20_BackEndsJobPolling ==
  /\ [][/\ (m.state = "Jobs" /\ m'.state = "Runs")
             => (~m'.jobsPolling /\ m'.jobsPollStartIDs = Nil)
        /\ (m.state = "Runs" /\ m'.state = "Runs")
             => \A i \in DOMAIN cmds' : cmds'[i].c # "fetchJobs"]_vars
  /\ (m.state = "Runs" /\ m.selectedRun # 0)
       ~> (m.state # "Runs" \/ pend[Cmd("jobsPoll", 0)] = 0)

\* C21: in Runs, Jobs and PullRequests the manual refresh key (tab or
\* ctrl+r) issues the fetch of the list of that view, and the view stays.
C21_RefreshFetchesList ==
  [][(msg'.type = "key" /\ msg'.key \in {"tab", "ctrl+r"}
        /\ m.state \in {"Runs", "Jobs", "PRs"})
       => /\ m'.state = m.state
          /\ cmds' = CASE m.state = "Runs" -> <<FetchRunsOf(m)>>
                       [] m.state = "Jobs" -> <<Cmd("fetchJobs", m.selectedRun)>>
                       [] m.state = "PRs"  -> <<Cmd("fetchPRs", 0)>>]_vars

\* C22: the keys of the log view (a, g, G, up, down, pgup, pgdn, c, /)
\* pressed in a state other than Logs leave the viewport offset, the
\* auto-scroll flag, the log filter, the filter mode and the raw log
\* unchanged.
C22_LogKeysOnlyInLogs ==
  [][(msg'.type = "key" /\ msg'.key \in ScrollKeys \cup {"c", "/"}
        /\ m.state # "Logs")
       => /\ m'.yOffset = m.yOffset
          /\ m'.autoScroll = m.autoScroll
          /\ m'.logFilter = m.logFilter
          /\ m'.logFilterMode = m.logFilterMode
          /\ m'.logRaw = m.logRaw]_vars

\* C22: / was pressed in Jobs after a log view that was filtered and
\* scrolled up with auto-scroll off; the log view's state is as it was left
C22_Witness ==
  /\ msg.type = "key"
  /\ msg.key = "/"
  /\ m.state = "Jobs"
  /\ m.logRaw = LongLog
  /\ m.logFilter = <<"a">>
  /\ ~m.logFilterMode
  /\ ~m.autoScroll
  /\ m.yOffset = 0
  /\ m.vpLines = 2
  /\ m.vpHeight = 1

\* C23: a poll issues its fetch only while its view is current: a runs-poll
\* tick issues a run-list fetch only in Runs, a jobs-poll tick a job-list
\* fetch only in Jobs, a log-poll tick a fetch only in Logs.
C23_PollOnlyInOwningView ==
  [][LET Issues(kinds) == \E i \in DOMAIN cmds' : cmds'[i].c \in kinds
     IN  /\ (msg'.type = "runsPollTick"
               /\ Issues({"fetchRuns", "fetchRunsForPR"}))
              => m.state = "Runs"
         /\ (msg'.type = "jobsPollTick" /\ Issues({"fetchJobs"}))
              => m.state = "Jobs"
         /\ (msg'.type = "logPollTick"
               /\ Issues({"fetchJobs", "fetchLogs", "fetchStepLogs"}))
              => m.state = "Logs"]_vars

\* C24: the jobs poll works in every view.  Entering Logs leaves the job
\* polling flag set; a jobs-poll tick that finds the flag set issues the
\* job-list fetch of the selected run and arms the next tick; so while the
\* user stays in Logs, the jobs poll issues a job-list fetch again and again.
C24_JobsPollWorksInLogs ==
  /\ [][/\ (m.state = "Jobs" /\ m.jobsPolling /\ m'.state = "Logs")
             => m'.jobsPolling
        /\ (msg'.type = "jobsPollTick" /\ m.jobsPolling)
             => /\ Count(cmds', Cmd("fetchJobs", m.selectedRun)) = 1
                /\ Count(cmds', Cmd("jobsPoll", 0)) = 1]_vars
  /\ (m.state = "Logs")
       ~> \/ m.state # "Logs"
          \/ /\ msg.type = "jobsPollTick"
             /\ Count(cmds, Cmd("fetchJobs", m.selectedRun)) = 1

\* C25: a log-poll tick never issues both a job-list fetch and a full-log
\* fetch.  In Logs with a running job it issues the job-list fetch and
\* arms the next tick; in Logs with a job that is not running it issues
\* one full-log fetch and arms nothing; outside Logs it issues nothing.
C25_LogPollTickBranches ==
  [][msg'.type = "logPollTick"
       => /\ ~(/\ \E i \in DOMAIN cmds' : cmds'[i].c = "fetchJobs"
               /\ \E i \in DOMAIN cmds' : cmds'[i].c = "fetchLogs")
          /\ cmds' = IF m.state # "Logs" THEN <<>>
                     ELSE IF m.selectedJob.status \in {"in_progress", "queued"}
                     THEN <<Cmd("fetchJobs", m.selectedRun), Cmd("logPoll", 0)>>
                     ELSE <<Cmd("fetchLogs", m.selectedJob.id)>>]_vars

\* C25: a log-poll tick found the job of the log view finished; it fetched
\* the full log and armed no timer
C25_Witness ==
  /\ msg.type = "logPollTick"
  /\ m.state = "Logs"
  /\ m.selectedJob.status = "completed"
  /\ cmds = <<Cmd("fetchLogs", m.selectedJob.id)>>
  /\ pend[Cmd("logPoll", 0)] = 0

C27_ResultCachedUnderItsRun ==
  [][msg'.type = "jobsLoaded"
       => /\ m'.lastJobsForRun[msg'.run] = msg'.jobs
          /\ \A r \in RunIds \ {msg'.run} :
               m'.lastJobsForRun[r] = m.lastJobsForRun[r]]_vars

\* C28: after every event the rendered log is empty, or one of the two
\* waiting texts, or the rendering of the raw log filtered by the filter.
C28_ContentIsRenderedFilter ==
  \/ m.logContent = <<>>
  \/ m.logContent \in {WaitingForLogs, WaitingForStepLogs}
  \/ m.logContent = renderLogs(FilterOutput(m.logRaw, m.logFilter))

\* C28: the filter a was typed over a log of three lines; the two lines
\* that hold it are shown
C28_Witness ==
  /\ msg.type = "key"
  /\ msg.key = "a"
  /\ m.state = "Logs"
  /\ m.logFilterMode
  /\ m.logFilter = <<"a">>
  /\ m.logRaw = LongLog
  /\ m.logContent = <<"a", NL, "a", "B">>

\* C29: in Logs the raw log only ever becomes text that was fetched for
\* the selected job: the result of a full-log fetch issued for another job
\* does not become the log that is shown.
C29_LogIsOfSelectedJob ==
  [][(m'.state = "Logs" /\ m'.logRaw # m.logRaw /\ m'.logRaw # <<>>)
       => (msg'.type = "logsLoaded" /\ msg'.job = m'.selectedJob.id)]_vars

\* C30: at most one log-poll timer is pending at any time.
C30_OneLogPollTimer == pend[Cmd("logPoll", 0)] <= 1

\* C31: at most one jobs-poll timer is pending at any time.
C31_OneJobsPollTimer == pend[Cmd("jobsPoll", 0)] <= 1

\* C32: the status message "Jumped to re-triggered job" is set only by a
\* job-list result that is handled while the waiting mode of a rerun is
\* active; the first load of the job list of a run, with no rerun, does
\* not set it.
C32_JumpOnlyAfterRerun ==
  [][(/\ msg'.type = "jobsLoaded"
      /\ m.statusMsg # "Jumped to re-triggered job"
      /\ m'.statusMsg = "Jumped to re-triggered job")
       => m.jobsPollStartIDs # Nil]_vars

\* C33: whenever the waiting mode of a rerun is active (the poll start set
\* is not nil) and the state is Jobs, the jobs list is empty.
C33_WaitingShowsNoJobs ==
  (m.state = "Jobs" /\ m.jobsPollStartIDs # Nil) => m.jobsItems = <<>>

\* C34: once the Logs view shows its job as not running, no later event
\* makes it show the same job as running again.  The formula takes the
\* case of two job-list fetches that were in flight together and resolve
\* one right after the other: when the first result showed the job as not
\* running, the second does not show it as running.
C34_FinishedNeverRunsAgain ==
  [][(/\ msg.type = "jobsLoaded"
      /\ msg'.type = "jobsLoaded"
      /\ m.state = "Logs"
      /\ m'.state = "Logs"
      /\ m'.selectedJob.id = m.selectedJob.id
      /\ ~isRunning(m.selectedJob.status))
       => ~isRunning(m'.selectedJob.status)]_vars

\* C35: if the user stays in the Logs view of a job that is not running,
\* no fetch fails, and the full-log fetch returns the empty text (not
\* ready) only finitely often, then the log text is eventually loaded into
\* the raw buffer without a key press.
C35_LogEventuallyLoaded ==
  (/\ <>[][msg'.type # "err"]_vars
   /\ <>[][msg'.type = "logsLoaded" => msg'.content # <<>>]_vars)
    => ((m.state = "Logs" /\ ~isRunning(m.selectedJob.status))
          ~> (m.state # "Logs" \/ m.logRaw # <<>>))


\* C36: the view state changes only when a key press is handled: no fetch
\* result, timer tick or error changes it.
C36_StateChangesOnlyByKeys ==
  [][msg'.type # "key" => m'.state = m.state]_vars


\* C38: whenever the current view is Jobs, the jobs polling flag is set.
C38_JobsImpliesPolling == m.state = "Jobs" => m.jobsPolling

\* Jobs was entered again from Logs: esc was handled and the view is Jobs
C38_Witness ==
  m.state = "Jobs" /\ msg.type = "key" /\ msg.key = "esc"

\* C39: whenever the current view is Runs, the runs polling flag is set,
\* whichever way Runs was reached.
C39_RunsImpliesPolling == m.state = "Runs" => m.runsPolling


\* C37: ctrl+c yields the quit command in every view and input mode: the
\* batch of commands returned for a ctrl+c key press is the quit command.
C37_CtrlCQuits ==
  [][(msg'.type = "key" /\ msg'.key = "ctrl+c") => cmds' = <<Quit>>]_vars

=============================================================================
